---- MODULE Spec2Model ----
(***************************************************************************)
(* Model of the tavily-real-time-rag backend: the stage graph of           *)
(* backend/main.py run by the graph library in supersteps, and the stages  *)
(* of backend/nodes/*.py, each a function from the state it receives and   *)
(* the replies of its external collaborators to a partial state update.    *)
(***************************************************************************)
EXTENDS Integers, Sequences, FiniteSets, TLC

VARIABLES
    state,      \* the shared graph state: a function from the keys present to their values
    active,     \* the stages of the current superstep
    updates,    \* the updates returned by the stages of the superstep that have finished
    taskInput,  \* the state dict each stage of the superstep was handed (its own dict)
    step,       \* supersteps started so far
    outcome,    \* "running", "normal", "node_error" or "recursion_error"
    failed,     \* the stage whose exception ended the run, and the exception
    result,     \* what graph.ainvoke returned: the final state, or NoResult
    cycle,      \* planning cycles started so far
    merged,     \* stages of the current cycle whose update has been merged
    started,    \* stages of the current cycle in the order they started
    runs,       \* how many times each stage has been run
    last,       \* the last stage run: its name, input, collaborator replies and return
    xq          \* a stage or a function run alone: the input it is given

vars == <<state, active, updates, taskInput, step, outcome, failed, result,
          cycle, merged, started, runs, last, xq>>

(***************************************************************************)
(* Bounds of the model.                                                    *)
(***************************************************************************)
\* queries in the longest valid planner reply that is explored
NumQueries == 2
\* crawl targets in the longest filter reply that is explored
NumTargets == 2

(***************************************************************************)
(* Dictionaries: Python dicts with string keys.                            *)
(***************************************************************************)
EmptyDict == [k \in {} |-> 0]

Has(d, k) == k \in DOMAIN d

\* dict.pop(k, None) for every k of ks
Without(d, ks) == [k \in DOMAIN d \ ks |-> d[k]]

\* text.strip(): "" and a blank text both strip to ""
Strip(s) == IF s = " " THEN "" ELSE s

HumanMessage(c) == [role |-> "human", content |-> c]
AIMessage(c) == [role |-> "ai", content |-> c]

\* what a stage's run() does: return an update, or raise; effects are the
\* requests it sent (for the stages that prompt the language model, the
\* problem statement of the prompt) and the records it logged, where the
\* model follows them
Return(u) == [err |-> "none", update |-> u, effects |-> EmptyDict]
Raise(e) == [err |-> e, update |-> EmptyDict, effects |-> EmptyDict]
ReturnWith(u, eff) == [err |-> "none", update |-> u, effects |-> eff]

RECURSIVE Flatten(_)
\* [doc for sub in nested for doc in sub]
Flatten(nested) ==
    IF Len(nested) = 0 THEN <<>> ELSE Head(nested) \o Flatten(Tail(nested))

(***************************************************************************)
(* URLs: the path of a URL as its sequence of segments.  A segment is a    *)
(* name, a number telling equally named segments apart, and whether the    *)
(* segment's text holds a ".".                                             *)
(***************************************************************************)
Seg(name, idx, dot) == [name |-> name, idx |-> idx, dot |-> dot]
BlobSeg == Seg("blob", 0, FALSE)
RawSeg == Seg("raw", 0, FALSE)
Dir(i) == Seg("dir", i, FALSE)
File(i) == Seg("file", i, TRUE)
NoExt(i) == Seg("noext", i, FALSE)

\* "/tok/" in url: the segment with a slash on both sides, so not the last one
Contains(url, tok) == \E i \in 1..(Len(url) - 1) : url[i] = tok

FirstIndex(url, tok) ==
    CHOOSE i \in 1..(Len(url) - 1) :
        url[i] = tok /\ \A j \in 1..(i - 1) : url[j] # tok

\* url.replace("/from/", "/to/", 1)
ReplaceFirst(url, from, to) ==
    [i \in 1..Len(url) |-> IF i = FirstIndex(url, from) THEN to ELSE url[i]]

blob_to_raw(url) ==
    IF Contains(url, BlobSeg) THEN ReplaceFirst(url, BlobSeg, RawSeg) ELSE url

\* url.replace("/raw/", "/blob/"): every occurrence
raw_to_blob_all(url) ==
    [i \in 1..Len(url) |-> IF i < Len(url) /\ url[i] = RawSeg THEN BlobSeg ELSE url[i]]

raw_to_blob(url) ==
    IF Contains(url, RawSeg) THEN ReplaceFirst(url, RawSeg, BlobSeg) ELSE url

NoName == Seg("", 0, FALSE)

\* PurePosixPath(url).name if it holds a ".", else None (NoName)
filename(url) ==
    IF Len(url) > 0 /\ url[Len(url)].dot THEN url[Len(url)] ELSE NoName

(***************************************************************************)
(* PlannerNode (nodes/planner.py).                                         *)
(***************************************************************************)
PlannerMaxItems == 3

Queries(n) == [i \in 1..n |-> i]

\* the language model's replies the planner is tried on: not JSON, and JSON
\* with an empty or a real outline and no, some or too many queries
PlannerReplies ==
    {[json |-> FALSE, solution_outline |-> "", search_queries |-> <<>>]}
    \cup {[json |-> TRUE, solution_outline |-> o, search_queries |-> Queries(n)] :
            o \in {"", "outline"}, n \in {0, NumQueries, PlannerMaxItems + 1}}

\* _Out.model_validate_json of planner.py
PlannerOutValid(reply) ==
    reply.json /\ Len(reply.search_queries) <= PlannerMaxItems

PlannerRun(st, reply) ==
    IF ~Has(st, "messages") \/ Len(st.messages) = 0 THEN Raise("ValueError")
    ELSE LET last_msg == st.messages[Len(st.messages)] IN
         IF last_msg.role # "human" THEN Raise("TypeError")
         ELSE IF Strip(last_msg.content) = "" THEN Raise("ValueError")
         ELSE IF ~PlannerOutValid(reply) THEN Raise("ValidationError")
         ELSE ReturnWith([solution_outline |-> reply.solution_outline,
                          search_queries |-> reply.search_queries,
                          messages |-> <<AIMessage("planner_json")>>],
                         [problem |-> Strip(last_msg.content)])

(***************************************************************************)
(* SearchNode (nodes/search.py).                                           *)
(***************************************************************************)
SearchOutcomes == {"error", "hits"}

SearchDoc(q, i) == [title |-> q, url |-> <<Dir(i)>>]

\* the results the search provider returns for a query
SearchHits(q) == <<SearchDoc(q, 1), SearchDoc(q, 2)>>

\* SearchNode._run_one: any exception of the call or of the validation is
\* logged and the query yields no document
run_one(q, o) ==
    IF o = "error" THEN <<>> ELSE SearchHits(q)

\* a search whose gather lets the exception of one query through
SearchRunAbort(st, outs) ==
    LET queries == IF Has(st, "search_queries") THEN st.search_queries ELSE <<>> IN
    IF Len(queries) = 0 THEN Return(EmptyDict)
    ELSE IF \E i \in 1..Len(queries) : outs[i] = "error" THEN Raise("Exception")
    ELSE Return([search_docs |->
                    Flatten([i \in 1..Len(queries) |-> run_one(queries[i], outs[i])])])

SearchRun(st, outs) ==
    LET queries == IF Has(st, "search_queries") THEN st.search_queries ELSE <<>> IN
    IF Len(queries) = 0 THEN Return(EmptyDict)
    ELSE Return([search_docs |->
                    Flatten([i \in 1..Len(queries) |-> run_one(queries[i], outs[i])])])

(***************************************************************************)
(* DrafterNode (nodes/drafter.py).                                         *)
(***************************************************************************)
DrafterRun(st) ==
    IF ~Has(st, "solution_outline") THEN Raise("KeyError")
    ELSE LET user_problem == Strip(st.messages[1].content)
             outline == Strip(st.solution_outline) IN
         IF user_problem = "" \/ outline = "" THEN Raise("ValueError")
         ELSE ReturnWith([initial_content |-> [content |-> "draft"],
                          messages |-> <<AIMessage("draft")>>],
                         [problem |-> user_problem])

(***************************************************************************)
(* FilterNode (nodes/filter.py).                                           *)
(***************************************************************************)
FilterMinItems == 1
FilterMaxItems == 3

Targets(n) == [i \in 1..n |-> <<Dir(i)>>]

FilterReplies ==
    {[json |-> FALSE, selected_urls |-> <<>>]}
    \cup {[json |-> TRUE, selected_urls |-> Targets(n)] : n \in {0, 1, NumTargets}}

\* _Out.model_validate_json of filter.py
FilterOutValid(reply) ==
    /\ reply.json
    /\ Len(reply.selected_urls) >= FilterMinItems
    /\ Len(reply.selected_urls) <= FilterMaxItems

\* a filter that hands the crawl no target when there is nothing to choose from
FilterRunNoCheck(st, reply) ==
    IF ~Has(st, "solution_outline") \/ ~Has(st, "search_docs") THEN Raise("KeyError")
    ELSE IF Len(st.search_docs) = 0
    THEN Return([crawl_urls |-> <<>>, messages |-> <<AIMessage("filter_json")>>])
    ELSE IF ~FilterOutValid(reply) THEN Raise("ValidationError")
    ELSE ReturnWith([crawl_urls |-> reply.selected_urls,
                     messages |-> <<AIMessage("filter_json")>>],
                    [problem |-> st.messages[1].content])

FilterRun(st, reply) ==
    IF ~Has(st, "solution_outline") \/ ~Has(st, "search_docs") THEN Raise("KeyError")
    ELSE IF Len(st.search_docs) = 0 THEN Raise("ValueError")
    ELSE IF ~FilterOutValid(reply) THEN Raise("ValidationError")
    ELSE ReturnWith([crawl_urls |-> reply.selected_urls,
                     messages |-> <<AIMessage("filter_json")>>],
                    [problem |-> st.messages[1].content])

(***************************************************************************)
(* CrawlNode (nodes/crawl.py).                                             *)
(***************************************************************************)
CrawlOutcomes == {"RequestException", "ValidationError", "ok"}

CrawlPage(url, raw_content) == [url |-> url, raw_content |-> raw_content]

\* the pages the crawl provider returns for a base URL: files in viewable
\* and raw form, a page with no body, a page outside both forms, a path
\* with no extension, and names that repeat
PagesOf(base) ==
    LET d == base[1] IN
    << CrawlPage(<<d, BlobSeg, File(1)>>, "body"),
       CrawlPage(<<d, RawSeg, File(2)>>, "body"),
       CrawlPage(<<d, BlobSeg, File(3)>>, ""),
       CrawlPage(<<d, File(4)>>, "body"),
       CrawlPage(<<d, BlobSeg, File(4)>>, "body"),
       CrawlPage(<<d, BlobSeg, NoExt(1)>>, "body"),
       CrawlPage(<<d, RawSeg, File(1)>>, "body"),
       CrawlPage(<<d, BlobSeg, File(4 + d.idx)>>, "body") >>

CrawlDoc(page) == [url |-> page.url, content |-> page.raw_content]

\* CrawlNode._crawl_one_sync
crawl_one_sync(base_url, o) ==
    IF o # "ok" THEN <<>>
    ELSE LET pages == PagesOf(base_url)
             kept == SelectSeq(pages, LAMBDA p : p.raw_content # "") IN
         [i \in 1..Len(kept) |-> CrawlDoc(kept[i])]

CrawlRun(st, outs) ==
    LET urls == IF Has(st, "crawl_urls") THEN st.crawl_urls ELSE <<>> IN
    IF Len(urls) = 0 THEN Return(EmptyDict)
    ELSE Return([crawl_docs |->
                    Flatten([i \in 1..Len(urls) |-> crawl_one_sync(urls[i], outs[i])])])

(***************************************************************************)
(* ExtractNode (nodes/extract.py).                                         *)
(***************************************************************************)
BATCH_SIZE == 20

\* the extract provider on one request: the call raises, every URL comes
\* back with its text, the first URL is reported failed, or the first URL
\* comes back with no text
BatchOutcomes == {"exception", "ok", "first_failed", "first_empty"}

\* client.extract(urls=urls, ...) when it does not raise
ExtractResponse(urls, o) ==
    LET item(u, text) == [url |-> u, raw_content |-> text] IN
    [results |->
        IF o = "first_failed" THEN [i \in 1..(Len(urls) - 1) |-> item(urls[i + 1], "text")]
        ELSE [i \in 1..Len(urls) |->
                 item(urls[i], IF o = "first_empty" /\ i = 1 THEN "" ELSE "text")],
     failed_results |->
        IF o = "first_failed" THEN <<[url |-> urls[1], error |-> "failed"]>> ELSE <<>>]

\* an _extract_sync that reports nothing for a batch whose call raised
extract_sync_silent(urls, o) ==
    IF o = "exception" THEN [docs |-> <<>>, fails |-> <<>>]
    ELSE LET resp == ExtractResponse(urls, o)
             withText == SelectSeq(resp.results, LAMBDA it : it.raw_content # "") IN
         [docs |-> [i \in 1..Len(withText) |->
                       [url |-> raw_to_blob(withText[i].url),
                        content |-> withText[i].raw_content]],
          fails |-> resp.failed_results]

\* an _extract_sync that keeps the URL the provider returned
extract_sync_raw_url(urls, o) ==
    IF o = "exception"
    THEN [docs |-> <<>>,
          fails |-> [i \in 1..Len(urls) |-> [url |-> urls[i], error |-> "exception"]]]
    ELSE LET resp == ExtractResponse(urls, o)
             withText == SelectSeq(resp.results, LAMBDA it : it.raw_content # "") IN
         [docs |-> [i \in 1..Len(withText) |->
                       [url |-> withText[i].url, content |-> withText[i].raw_content]],
          fails |-> resp.failed_results]

\* ExtractNode._extract_sync: the batch's (raw_docs, failed)
extract_sync(urls, o) ==
    IF o = "exception"
    THEN [docs |-> <<>>,
          fails |-> [i \in 1..Len(urls) |-> [url |-> urls[i], error |-> "exception"]]]
    ELSE LET resp == ExtractResponse(urls, o)
             withText == SelectSeq(resp.results, LAMBDA it : it.raw_content # "") IN
         [docs |-> [i \in 1..Len(withText) |->
                       [url |-> raw_to_blob(withText[i].url),
                        content |-> withText[i].raw_content]],
          fails |-> resp.failed_results]

RECURSIVE DedupNoSeen(_, _, _)
\* the loop without the test on seen: every named document is kept
DedupNoSeen(crawl_docs, i, acc) ==
    IF i > Len(crawl_docs) THEN acc
    ELSE LET url == crawl_docs[i].url
             text == crawl_docs[i].content IN
         IF filename(url) = NoName THEN DedupNoSeen(crawl_docs, i + 1, acc)
         ELSE DedupNoSeen(crawl_docs, i + 1,
                [seen |-> acc.seen \cup {filename(url)},
                 raw_docs |-> IF Contains(url, RawSeg)
                              THEN Append(acc.raw_docs,
                                          [url |-> raw_to_blob(url), content |-> text])
                              ELSE acc.raw_docs,
                 todo |-> IF ~Contains(url, RawSeg) /\ Contains(url, BlobSeg)
                          THEN Append(acc.todo, blob_to_raw(url))
                          ELSE acc.todo])

RECURSIVE Dedup(_, _, _)
\* the loop over crawl_docs of ExtractNode.run, from document i on, with
\* acc the loop's seen, raw_docs and todo so far
Dedup(crawl_docs, i, acc) ==
    IF i > Len(crawl_docs) THEN acc
    ELSE LET url == crawl_docs[i].url
             text == crawl_docs[i].content
             fname == filename(url) IN
         IF fname = NoName \/ fname \in acc.seen THEN Dedup(crawl_docs, i + 1, acc)
         ELSE Dedup(crawl_docs, i + 1,
                [seen |-> acc.seen \cup {fname},
                 raw_docs |-> IF Contains(url, RawSeg)
                              THEN Append(acc.raw_docs,
                                          [url |-> raw_to_blob(url), content |-> text])
                              ELSE acc.raw_docs,
                 todo |-> IF ~Contains(url, RawSeg) /\ Contains(url, BlobSeg)
                          THEN Append(acc.todo, blob_to_raw(url))
                          ELSE acc.todo])

DedupAll(crawl_docs) ==
    Dedup(crawl_docs, 1, [seen |-> {}, raw_docs |-> <<>>, todo |-> <<>>])

NumBatches(todo) == (Len(todo) + BATCH_SIZE - 1) \div BATCH_SIZE

\* slices one URL too long: todo[i:i + BATCH_SIZE + 1]
BatchesOverlap(todo) ==
    [b \in 1..NumBatches(todo) |->
        SubSeq(todo, (b - 1) * BATCH_SIZE + 1,
               IF b * BATCH_SIZE + 1 < Len(todo) THEN b * BATCH_SIZE + 1 ELSE Len(todo))]

\* todo[i:i + BATCH_SIZE] for i in range(0, len(todo), BATCH_SIZE)
Batches(todo) ==
    [b \in 1..NumBatches(todo) |->
        SubSeq(todo, (b - 1) * BATCH_SIZE + 1,
               IF b * BATCH_SIZE < Len(todo) THEN b * BATCH_SIZE ELSE Len(todo))]

CrawlDocsOf(st) == IF Has(st, "crawl_docs") THEN st.crawl_docs ELSE <<>>

\* the results of the batches, in the order of the requests (asyncio.gather)
BatchResults(st, outs) ==
    LET reqs == Batches(DedupAll(CrawlDocsOf(st)).todo) IN
    [b \in 1..Len(reqs) |-> extract_sync(reqs[b], outs[b])]

RECURSIVE SumLen(_)
SumLen(seqs) == IF Len(seqs) = 0 THEN 0 ELSE Len(Head(seqs)) + SumLen(Tail(seqs))

\* what ExtractNode.run sends and logs: the requests, one "Extract failed"
\* record per failure, and "extracted success/(success + failure) URLs"
ExtractEffects(st, outs) ==
    LET res == BatchResults(st, outs) IN
    [requests |-> Batches(DedupAll(CrawlDocsOf(st)).todo),
     failed |-> Flatten([b \in 1..Len(res) |-> res[b].fails]),
     success |-> SumLen([b \in 1..Len(res) |-> res[b].docs]),
     failure |-> SumLen([b \in 1..Len(res) |-> res[b].fails])]

ExtractRun(st, outs) ==
    IF Len(CrawlDocsOf(st)) = 0 THEN Return(EmptyDict)
    ELSE LET res == BatchResults(st, outs) IN
         ReturnWith([raw_docs |-> DedupAll(CrawlDocsOf(st)).raw_docs
                                  \o Flatten([b \in 1..Len(res) |-> res[b].docs])],
                    ExtractEffects(st, outs))

(***************************************************************************)
(* The URL conversions of nodes/extract.py alone, on every short path.     *)
(***************************************************************************)
\* segments in the longest URL converted
MaxSegs == 4

UrlSegs == {Dir(1), BlobSeg, RawSeg, File(1)}

Urls == UNION {[1..n -> UrlSegs] : n \in 1..MaxSegs}

ConvertUrl(url) ==
    [node |-> "url", input |-> url,
     ret |-> [raw |-> blob_to_raw(url),
              blob |-> raw_to_blob(url),
              round |-> blob_to_raw(raw_to_blob(blob_to_raw(url)))]]

(***************************************************************************)
(* RankerNode (nodes/ranker.py).  Vectors are pairs of integers; a score   *)
(* is kept exactly, as the dot product and the two squared norms, or is    *)
(* None, or is NaN (numpy's 0/0).                                          *)
(***************************************************************************)
Dot(a, b) == a[1] * b[1] + a[2] * b[2]

NoScore == [kind |-> "none", dot |-> 0, na |-> 0, nb |-> 0]
NaN == [kind |-> "nan", dot |-> 0, na |-> 0, nb |-> 0]

\* float(np.dot(a, b) / (np.linalg.norm(a) * np.linalg.norm(b)))
Cosine(a, b) ==
    IF Dot(a, a) = 0 \/ Dot(b, b) = 0 THEN NaN
    ELSE [kind |-> "value", dot |-> Dot(a, b), na |-> Dot(a, a), nb |-> Dot(b, b)]

\* the embedding provider on one request: the call raises, or it returns
\* one vector per input, in order
RankOutcomes == {"error", "plain", "zero_first"}

Embeddings(n, o) ==
    [i \in 1..n |-> IF o = "zero_first" /\ i = 1 THEN <<0, 0>>
                    ELSE IF i = n THEN <<1, 1>> ELSE <<1, i % 3>>]

signature(text) == text

NoVector == <<>>

\* the in-place writes of RankerNode.run before the embedding request; a
\* document keeps the vector and the score an earlier run gave it
WithSignatures(docs) ==
    [i \in 1..Len(docs) |->
        [url |-> docs[i].url, content |-> docs[i].content,
         signature_text |-> signature(docs[i].content),
         embedding |-> IF "embedding" \in DOMAIN docs[i]
                       THEN docs[i].embedding ELSE NoVector,
         similarity_score |-> IF "similarity_score" \in DOMAIN docs[i]
                              THEN docs[i].similarity_score ELSE NoScore]]

\* the loop of RankerNode.run over zip(raw_docs, vectors)
WithScores(docs, vectors, hasDraft, draft_vec) ==
    [i \in 1..Len(docs) |->
        IF i > Len(vectors) THEN docs[i]
        ELSE [docs[i] EXCEPT !.embedding = vectors[i],
                             !.similarity_score =
                                 IF hasDraft THEN Cosine(draft_vec, vectors[i])
                                 ELSE NoScore]]

RawDocsOf(st) == IF Has(st, "raw_docs") THEN st.raw_docs ELSE <<>>

\* the requests RankerNode.run sends to the embedding provider: one, with
\* the signature of every document and then the draft's
EmbedRequests(st) ==
    LET raw_docs == RawDocsOf(st)
        signatures == [i \in 1..Len(raw_docs) |-> signature(raw_docs[i].content)]
                      \o (IF Has(st, "initial_content")
                          THEN <<signature(st.initial_content.content)>> ELSE <<>>) IN
    IF Len(signatures) = 0 THEN <<>> ELSE <<signatures>>

\* a run that takes the first vector of the response for the draft's
RankerRunDraftFirst(st, o) ==
    LET raw_docs == RawDocsOf(st)
        hasDraft == Has(st, "initial_content")
        n == Len(raw_docs) + (IF hasDraft THEN 1 ELSE 0)
        vectors == Embeddings(n, o)
        docVectors == IF hasDraft THEN SubSeq(vectors, 2, n) ELSE vectors
        scored == WithScores(WithSignatures(raw_docs), docVectors, hasDraft,
                             IF hasDraft THEN vectors[1] ELSE <<0, 0>>) IN
    IF Len(raw_docs) = 0 /\ ~hasDraft THEN Return(EmptyDict)
    ELSE IF o = "error" THEN Raise("APIError")
    ELSE IF \E i \in 1..Len(scored) : scored[i].similarity_score = NoScore
         THEN Raise("TypeError")
    ELSE Return([raw_docs |-> scored,
                 initial_content |->
                     [content |-> st.initial_content.content,
                      signature_text |-> signature(st.initial_content.content),
                      embedding |-> vectors[1]]])

RankerRun(st, o) ==
    LET raw_docs == RawDocsOf(st)
        hasDraft == Has(st, "initial_content")
        n == Len(raw_docs) + (IF hasDraft THEN 1 ELSE 0)
        vectors == Embeddings(n, o)
        docVectors == IF hasDraft THEN SubSeq(vectors, 1, n - 1) ELSE vectors
        scored == WithScores(WithSignatures(raw_docs), docVectors, hasDraft,
                             IF hasDraft THEN vectors[n] ELSE <<0, 0>>) IN
    IF Len(raw_docs) = 0 /\ ~hasDraft THEN Return(EmptyDict)
    ELSE IF o = "error" THEN Raise("APIError")
    \* the ranking lines format every score with :.4f
    ELSE IF \E i \in 1..Len(scored) : scored[i].similarity_score = NoScore
         THEN Raise("TypeError")
    ELSE Return([raw_docs |-> scored,
                 initial_content |->
                     [content |-> st.initial_content.content,
                      signature_text |-> signature(st.initial_content.content),
                      embedding |-> vectors[n]]])

(***************************************************************************)
(* RefinerNode (nodes/refiner.py).                                         *)
(***************************************************************************)
TOP_K_example == 3

Take(seq, k) == SubSeq(seq, 1, IF k < Len(seq) THEN k ELSE Len(seq))

HasScore(d) == "similarity_score" \in DOMAIN d /\ d.similarity_score # NoScore

\* the order of two scores as floats: s < t
ScoreLess(s, t) ==
    LET sq(x) == (IF x.dot < 0 THEN -1 ELSE 1) * x.dot * x.dot IN
    /\ s.kind = "value" /\ t.kind = "value"
    /\ sq(s) * (t.na * t.nb) < sq(t) * (s.na * s.nb)

RECURSIVE SortDesc(_)
\* list.sort(key=score, reverse=True): stable, equal scores keep their order
SortDesc(docs) ==
    IF Len(docs) <= 1 THEN docs
    ELSE LET rest == SortDesc(SubSeq(docs, 1, Len(docs) - 1))
             d == docs[Len(docs)]
             \* d goes before the first document that scores less than it
             lower == {p \in 1..Len(rest) :
                          ScoreLess(rest[p].similarity_score, d.similarity_score)}
             pos == IF lower = {} THEN Len(rest)
                    ELSE (CHOOSE p \in lower : \A q \in lower : p <= q) - 1
         IN SubSeq(rest, 1, pos) \o <<d>> \o SubSeq(rest, pos + 1, Len(rest))

\* the scored documents cut to k, in the order they came in
top_k_unsorted(docs, k) ==
    LET scored == SelectSeq(docs, HasScore) IN
    IF Len(scored) > 0 THEN Take(scored, k) ELSE Take(docs, k)

top_k_best(docs, k) ==
    LET scored == SelectSeq(docs, HasScore) IN
    IF Len(scored) > 0 THEN Take(SortDesc(scored), k) ELSE Take(docs, k)

\* a refine stage that cites every reference document it was handed
RefinerRunAllDocs(st) ==
    IF ~Has(st, "initial_content") THEN Raise("KeyError")
    ELSE LET docs == RawDocsOf(st) IN
         ReturnWith([final_content |->
                         [content |-> "refined",
                          sources |-> [i \in 1..Len(docs) |-> docs[i].url]],
                     messages |-> <<AIMessage("refined")>>,
                     status |-> "refined"],
                    [problem |-> Strip(st.messages[1].content)])

RefinerRun(st) ==
    IF ~Has(st, "initial_content") THEN Raise("KeyError")
    ELSE LET top_docs == top_k_best(RawDocsOf(st), TOP_K_example) IN
         ReturnWith([final_content |->
                         [content |-> "refined",
                          sources |-> [i \in 1..Len(top_docs) |-> top_docs[i].url]],
                     messages |-> <<AIMessage("refined")>>,
                     status |-> "refined"],
                    [problem |-> Strip(st.messages[1].content)])

(***************************************************************************)
(* ResponderNode (nodes/responder.py).                                     *)
(***************************************************************************)
CycleKeys == {"solution_outline", "search_queries", "search_docs", "crawl_urls",
              "crawl_docs", "raw_docs", "initial_content", "final_content"}

\* _clean_state(state): pops the cycle's keys from the dict it is given
clean_state(d) == Without(d, CycleKeys)

UserInputs == {"", "more"}

\* the language model's follow-up replies: not JSON, a status outside the
\* schema, continue with no, an empty, a blank or a real problem, and done
ResponderReplies ==
    {[json |-> FALSE, status |-> "", has_problem |-> FALSE, problem |-> ""],
     [json |-> TRUE, status |-> "maybe", has_problem |-> FALSE, problem |-> ""],
     [json |-> TRUE, status |-> "continue", has_problem |-> FALSE, problem |-> ""],
     [json |-> TRUE, status |-> "continue", has_problem |-> TRUE, problem |-> ""],
     [json |-> TRUE, status |-> "continue", has_problem |-> TRUE, problem |-> " "],
     [json |-> TRUE, status |-> "continue", has_problem |-> TRUE, problem |-> "p2"],
     [json |-> TRUE, status |-> "done", has_problem |-> FALSE, problem |-> ""]}

\* _Out.model_validate_json of responder.py: the fields' types only
ResponderOutValid(reply) ==
    reply.json /\ reply.status \in {"continue", "done"}

ResponderRun(st, user_input, reply) ==
    IF Strip(user_input) = ""
    THEN Return([status |-> "done", messages |-> <<AIMessage("goodbye")>>])
    ELSE IF ~ResponderOutValid(reply)
    THEN Return([status |-> "done", messages |-> <<AIMessage("responder_error")>>])
    ELSE IF reply.status = "continue"
    THEN IF ~reply.has_problem THEN Raise("AttributeError")
         ELSE Return([status |-> "continue",
                      follow_up_response |-> "responder_json",
                      messages |-> <<AIMessage("responder_json"),
                                     HumanMessage(Strip(reply.problem))>>])
    ELSE Return([status |-> "done",
                 follow_up_response |-> "responder_json",
                 messages |-> <<AIMessage("responder_json"), AIMessage("goodbye")>>])

\* the dict the responder was handed, as run() leaves it
ResponderInput(st, user_input, reply) ==
    IF ResponderRun(st, user_input, reply).err = "none" THEN clean_state(st) ELSE st

(***************************************************************************)
(* The graph (main.py) and its execution in supersteps: the stages of a    *)
(* superstep each get their own dict of the state, their updates are       *)
(* merged when all of them have returned, and the stages their edges lead  *)
(* to form the next superstep.                                             *)
(***************************************************************************)
RecursionLimit == 10

NodeOrder == <<"planner", "search", "drafter", "filter", "crawl", "extract",
               "ranker", "refiner", "responder">>

Nodes == {NodeOrder[i] : i \in 1..Len(NodeOrder)}

EntryPoint == "planner"

\* the graph with the join spelled as a second edge into the refiner
EdgesDraftToRefine ==
    {<<"planner", "search">>, <<"planner", "drafter">>, <<"search", "filter">>,
     <<"filter", "crawl">>, <<"crawl", "extract">>, <<"extract", "ranker">>,
     <<"ranker", "refiner">>, <<"drafter", "refiner">>}

\* the graph with the crawl wired before the filter
EdgesCrawlBeforeFilter ==
    {<<"planner", "search">>, <<"planner", "drafter">>, <<"search", "crawl">>,
     <<"crawl", "filter">>, <<"filter", "extract">>, <<"extract", "ranker">>,
     <<"ranker", "refiner">>}

\* builder.add_edge(a, b); the similarity stage between extract and refiner
\* is the ranker
Edges ==
    {<<"planner", "search">>, <<"planner", "drafter">>, <<"search", "filter">>,
     <<"filter", "crawl">>, <<"crawl", "extract">>, <<"extract", "ranker">>,
     <<"ranker", "refiner">>}

\* refine -> respond
RespondEdges == {<<"refiner", "responder">>}

\* respond -> plan | terminate, on run_status
Route(st) == IF st.status = "done" THEN {} ELSE {EntryPoint}

\* the stages triggered by the stages that just ran
NextTasks(ran, st) ==
    {e[2] : e \in {x \in Edges \cup RespondEdges : x[1] \in ran}}
    \cup (IF "responder" \in ran THEN Route(st) ELSE {})

\* a State whose messages key has no reducer: the update's list replaces it
MergeOverwrite(st, u) ==
    [k \in DOMAIN st \cup DOMAIN u |-> IF k \in DOMAIN u THEN u[k] ELSE st[k]]

\* the reducers of State: messages are appended (add_messages), every
\* other key takes the new value
Merge(st, u) ==
    [k \in DOMAIN st \cup DOMAIN u |->
        IF k \in DOMAIN u
        THEN (IF k = "messages" /\ k \in DOMAIN st THEN st[k] \o u[k] ELSE u[k])
        ELSE st[k]]

RECURSIVE MergeFrom(_, _, _)
MergeFrom(st, ups, i) ==
    IF i > Len(NodeOrder) THEN st
    ELSE MergeFrom(IF NodeOrder[i] \in DOMAIN ups THEN Merge(st, ups[NodeOrder[i]]) ELSE st,
                   ups, i + 1)

MergeAll(st, ups) == MergeFrom(st, ups, 1)

\* a run with no recursion limit
CeilingNever(n) == FALSE

\* the recursion limit: no superstep beyond it is started
CeilingHit(n) == n >= RecursionLimit

NoResult == [none |-> TRUE]
NoFailure == [node |-> "none", err |-> "none"]
NoRun == [node |-> "none"]

\* main(): the problem typed in is stripped and is not empty
init_state == [messages |-> <<HumanMessage("p1")>>, status |-> "new"]

ZeroRuns == [n \in Nodes |-> 0]

Init ==
    /\ state = init_state
    /\ active = {EntryPoint}
    /\ updates = EmptyDict
    /\ taskInput = [n \in {EntryPoint} |-> init_state]
    /\ step = 1
    /\ outcome = "running"
    /\ failed = NoFailure
    /\ result = NoResult
    /\ cycle = 1
    /\ merged = {}
    /\ started = <<>>
    /\ runs = ZeroRuns
    /\ last = NoRun
    /\ xq = <<>>

CanRun(n) == outcome = "running" /\ n \in active /\ n \notin DOMAIN updates

\* a stage has run on the dict it was handed, with the replies ext of its
\* collaborators, and has returned or raised res; inPlace is the shared
\* state and handed is the stage's dict as the run left them
Ran(n, ext, res, inPlace, handed) ==
    /\ last' = [node |-> n, input |-> taskInput[n], ext |-> ext, ret |-> res,
                cycle |-> cycle]
    /\ started' = Append(started, n)
    /\ runs' = [runs EXCEPT ![n] = @ + 1]
    /\ state' = inPlace
    /\ taskInput' = [taskInput EXCEPT ![n] = handed]
    /\ IF res.err = "none"
       THEN /\ updates' = [m \in DOMAIN updates \cup {n} |->
                              IF m = n THEN res.update ELSE updates[m]]
            /\ UNCHANGED <<outcome, failed>>
       ELSE /\ outcome' = "node_error"
            /\ failed' = [node |-> n, err |-> res.err]
            /\ UNCHANGED updates
    /\ UNCHANGED <<active, step, result, cycle, merged, xq>>

Planner ==
    /\ CanRun("planner")
    /\ \E reply \in PlannerReplies :
           Ran("planner", reply, PlannerRun(taskInput["planner"], reply),
               state, taskInput["planner"])

Search ==
    /\ CanRun("search")
    /\ LET st == taskInput["search"]
           n == IF Has(st, "search_queries") THEN Len(st.search_queries) ELSE 0 IN
       \E outs \in [1..n -> SearchOutcomes] :
           Ran("search", outs, SearchRun(st, outs), state, st)

Drafter ==
    /\ CanRun("drafter")
    /\ Ran("drafter", "draft", DrafterRun(taskInput["drafter"]),
           state, taskInput["drafter"])

Filter ==
    /\ CanRun("filter")
    /\ \E reply \in FilterReplies :
           Ran("filter", reply, FilterRun(taskInput["filter"], reply),
               state, taskInput["filter"])

Crawl ==
    /\ CanRun("crawl")
    /\ LET st == taskInput["crawl"]
           n == IF Has(st, "crawl_urls") THEN Len(st.crawl_urls) ELSE 0 IN
       \E outs \in [1..n -> CrawlOutcomes] :
           Ran("crawl", outs, CrawlRun(st, outs), state, st)

Extract ==
    /\ CanRun("extract")
    /\ LET st == taskInput["extract"]
           n == NumBatches(DedupAll(CrawlDocsOf(st)).todo) IN
       \E outs \in [1..n -> BatchOutcomes] :
           Ran("extract", outs, ExtractRun(st, outs), state, st)

\* RankerNode.run writes into the document dicts and the draft dict it was
\* handed, which are the ones the shared state holds: d as the run leaves it
RankerInPlace(d, o) ==
    LET res == RankerRun(d, o)
        draftSeen == [content |-> d.initial_content.content,
                      signature_text |-> signature(d.initial_content.content)] IN
    IF Len(RawDocsOf(d)) = 0 /\ ~Has(d, "initial_content") THEN d
    ELSE IF res.err = "none" THEN Merge(d, res.update)
    ELSE Merge(d,
           [k \in ({"raw_docs", "initial_content"} \cap DOMAIN d) |->
               IF k = "initial_content" THEN draftSeen
               ELSE IF o = "error" THEN WithSignatures(d.raw_docs)
               ELSE WithScores(WithSignatures(d.raw_docs),
                               Embeddings(Len(d.raw_docs), o), FALSE, <<0, 0>>)])

Ranker ==
    /\ CanRun("ranker")
    /\ \E o \in RankOutcomes :
           Ran("ranker", o, RankerRun(taskInput["ranker"], o),
               RankerInPlace(state, o), RankerInPlace(taskInput["ranker"], o))

Refiner ==
    /\ CanRun("refiner")
    /\ Ran("refiner", "refined", RefinerRun(taskInput["refiner"]),
           state, taskInput["refiner"])

Responder ==
    /\ CanRun("responder")
    /\ \E user_input \in UserInputs, reply \in ResponderReplies :
           Ran("responder", [user_input |-> user_input, reply |-> reply],
               ResponderRun(taskInput["responder"], user_input, reply),
               state, ResponderInput(taskInput["responder"], user_input, reply))

\* the end of a superstep: every stage of it has returned, the updates are
\* merged, and the next stages are scheduled, the run ends, or the
\* recursion limit is hit (GraphRecursionError)
ApplyWrites ==
    /\ outcome = "running"
    /\ active # {}
    /\ DOMAIN updates = active
    /\ LET merged_state == MergeAll(state, updates)
           next == NextTasks(active, merged_state)
           again == EntryPoint \in next IN
       /\ state' = merged_state
       /\ updates' = EmptyDict
       /\ merged' = IF again THEN {} ELSE merged \cup active
       /\ started' = IF again THEN <<>> ELSE started
       /\ cycle' = IF again /\ ~CeilingHit(step) THEN cycle + 1 ELSE cycle
       /\ IF next = {}
          THEN /\ outcome' = "normal"
               /\ result' = merged_state
               /\ active' = {}
               /\ taskInput' = EmptyDict
               /\ UNCHANGED step
          ELSE IF CeilingHit(step)
          THEN /\ outcome' = "recursion_error"
               /\ active' = {}
               /\ taskInput' = EmptyDict
               /\ UNCHANGED <<step, result>>
          ELSE /\ active' = next
               /\ taskInput' = [n \in next |-> merged_state]
               /\ step' = step + 1
               /\ UNCHANGED <<outcome, result>>
    /\ UNCHANGED <<failed, runs, last, xq>>

Next ==
    \/ Planner
    \/ Search
    \/ Drafter
    \/ Filter
    \/ Crawl
    \/ Extract
    \/ Ranker
    \/ Refiner
    \/ Responder
    \/ ApplyWrites

Spec == Init /\ [][Next]_vars

(***************************************************************************)
(* The rank stage alone, with and without a draft, on lists of reference   *)
(* documents up to one longer than 96.                                     *)
(***************************************************************************)
\* the longest list of reference documents the stage is given
MaxRanked == 97

RankDocs(n) == [i \in 1..n |-> [url |-> <<Dir(1), BlobSeg, File(i)>>, content |-> "text"]]

RankInput(n, hasDraft) ==
    IF hasDraft THEN [raw_docs |-> RankDocs(n), initial_content |-> [content |-> "draft"]]
    ELSE [raw_docs |-> RankDocs(n)]

InitRank ==
    /\ xq \in {RankInput(n, h) : n \in 0..MaxRanked, h \in BOOLEAN}
    /\ state = init_state
    /\ active = {}
    /\ updates = EmptyDict
    /\ taskInput = EmptyDict
    /\ step = 0
    /\ outcome = "running"
    /\ failed = NoFailure
    /\ result = NoResult
    /\ cycle = 0
    /\ merged = {}
    /\ started = <<>>
    /\ runs = ZeroRuns
    /\ last = NoRun

\* the stage run on xq: what it returned or raised, the requests it sent,
\* and the documents as its in-place writes left them
RankAlone ==
    /\ last = NoRun
    /\ \E o \in RankOutcomes :
           last' = [node |-> "ranker", input |-> xq, ext |-> o,
                    ret |-> RankerRun(xq, o),
                    requests |-> EmbedRequests(xq),
                    docs |-> RawDocsOf(RankerInPlace(xq, o)),
                    cycle |-> 0]
    /\ UNCHANGED <<state, active, updates, taskInput, step, outcome, failed, result,
                   cycle, merged, started, runs, xq>>

NextRank == RankAlone

SpecRank == InitRank /\ [][NextRank]_vars

(***************************************************************************)
(* top_k_best of nodes/refiner.py alone, on every short list of documents  *)
(* with and without scores.                                                *)
(***************************************************************************)
\* the longest list of documents selected from
MaxListed == 4

\* a score as the rank stage keeps it: dot / sqrt(na * nb)
Score(dot, na, nb) == [kind |-> "value", dot |-> dot, na |-> na, nb |-> nb]

\* None, 0.9, 0.5, 0.5 from other vectors, and -0.5
Scores == {NoScore, Score(9, 10, 10), Score(5, 10, 10), Score(1, 2, 2), Score(-5, 10, 10)}

\* the lists of up to MaxListed documents, the i-th of file i
ScoredLists ==
    UNION {{[i \in 1..n |-> [url |-> <<Dir(1), BlobSeg, File(i)>>, content |-> "text",
                              similarity_score |-> f[i]]] :
               f \in [1..n -> Scores]} : n \in 0..MaxListed}

InitTopK ==
    /\ xq \in {[docs |-> l, k |-> k] : l \in ScoredLists, k \in 0..(MaxListed + 1)}
    /\ state = init_state
    /\ active = {}
    /\ updates = EmptyDict
    /\ taskInput = EmptyDict
    /\ step = 0
    /\ outcome = "running"
    /\ failed = NoFailure
    /\ result = NoResult
    /\ cycle = 0
    /\ merged = {}
    /\ started = <<>>
    /\ runs = ZeroRuns
    /\ last = NoRun

TopKSelected ==
    /\ last = NoRun
    /\ last' = [node |-> "top_k_best", input |-> xq, ret |-> top_k_best(xq.docs, xq.k)]
    /\ UNCHANGED <<state, active, updates, taskInput, step, outcome, failed, result,
                   cycle, merged, started, runs, xq>>

NextTopK == TopKSelected

SpecTopK == InitTopK /\ [][NextTopK]_vars

(***************************************************************************)
(* The URL conversions alone.                                              *)
(***************************************************************************)
InitUrl ==
    /\ xq \in Urls
    /\ state = init_state
    /\ active = {}
    /\ updates = EmptyDict
    /\ taskInput = EmptyDict
    /\ step = 0
    /\ outcome = "running"
    /\ failed = NoFailure
    /\ result = NoResult
    /\ cycle = 0
    /\ merged = {}
    /\ started = <<>>
    /\ runs = ZeroRuns
    /\ last = NoRun

UrlConverted ==
    /\ last = NoRun
    /\ last' = ConvertUrl(xq)
    /\ UNCHANGED <<state, active, updates, taskInput, step, outcome, failed, result,
                   cycle, merged, started, runs, xq>>

NextUrl == UrlConverted

SpecUrl == InitUrl /\ [][NextUrl]_vars

(***************************************************************************)
(* The extract stage alone: on queues longer than one batch, and on short  *)
(* lists of crawled pages of every kind of URL.                            *)
(***************************************************************************)
\* the longest list of crawled pages in viewable form the stage is given
MaxQueued == 41
\* the longest list of crawled pages of mixed kinds the stage is given
MaxDocs == 3

\* n crawled pages in viewable form, each of a file of its own
BlobDocs(n) == [i \in 1..n |-> [url |-> <<Dir(1), BlobSeg, File(i)>>, content |-> "page"]]

\* the URLs of crawled pages: a file in viewable and in raw form, the same
\* file name under another path, a file in neither form and in viewable
\* form, a path with no extension, a raw URL through a directory named
\* raw, and a viewable URL through a directory named raw
CrawledUrls ==
    { <<Dir(1), BlobSeg, File(1)>>,
      <<Dir(1), RawSeg, File(1)>>,
      <<Dir(2), BlobSeg, File(1)>>,
      <<Dir(1), File(2)>>,
      <<Dir(1), BlobSeg, File(2)>>,
      <<Dir(1), RawSeg, NoExt(1)>>,
      <<Dir(1), RawSeg, Dir(2), RawSeg, File(3)>>,
      <<Dir(1), BlobSeg, Dir(2), RawSeg, File(4)>> }

\* the lists of up to MaxDocs crawled pages, the i-th with its own text
MixedDocs ==
    UNION {{[i \in 1..n |-> [url |-> f[i], content |-> ToString(i)]] :
               f \in [1..n -> CrawledUrls]} : n \in 0..MaxDocs}

InitExtract ==
    /\ xq \in {BlobDocs(n) : n \in 0..MaxQueued} \cup MixedDocs
    /\ state = init_state
    /\ active = {}
    /\ updates = EmptyDict
    /\ taskInput = EmptyDict
    /\ step = 0
    /\ outcome = "running"
    /\ failed = NoFailure
    /\ result = NoResult
    /\ cycle = 0
    /\ merged = {}
    /\ started = <<>>
    /\ runs = ZeroRuns
    /\ last = NoRun

ExtractAlone ==
    /\ last = NoRun
    /\ LET st == [crawl_docs |-> xq]
           n == NumBatches(DedupAll(xq).todo) IN
       \E outs \in [1..n -> BatchOutcomes] :
           last' = [node |-> "extract", input |-> st, ext |-> outs,
                    ret |-> ExtractRun(st, outs), cycle |-> 0]
    /\ UNCHANGED <<state, active, updates, taskInput, step, outcome, failed, result,
                   cycle, merged, started, runs, xq>>

\* the stage run once more, on the documents its first run returned, the
\* provider returning every URL with its text
ExtractAgain ==
    /\ last # NoRun
    /\ last.node = "extract"
    /\ last.ret.err = "none"
    /\ Has(last.ret.update, "raw_docs")
    /\ LET st == [crawl_docs |-> last.ret.update.raw_docs]
           n == NumBatches(DedupAll(st.crawl_docs).todo) IN
       last' = [node |-> "extract_again", input |-> st, ext |-> [b \in 1..n |-> "ok"],
                ret |-> ExtractRun(st, [b \in 1..n |-> "ok"]), cycle |-> 0]
    /\ UNCHANGED <<state, active, updates, taskInput, step, outcome, failed, result,
                   cycle, merged, started, runs, xq>>

NextExtract == ExtractAlone \/ ExtractAgain

SpecExtract == InitExtract /\ [][NextExtract]_vars

(***************************************************************************)
(* Claims.                                                                 *)
(***************************************************************************)
LastOf(seq) == seq[Len(seq)]

IsPrefix(a, b) == Len(a) <= Len(b) /\ SubSeq(b, 1, Len(a)) = a

Range(seq) == {seq[i] : i \in 1..Len(seq)}

RespondReturned ==
    outcome = "running" /\ active = {"responder"} /\ "responder" \in DOMAIN updates

BothBranches == {"drafter", "search", "filter", "crawl", "extract", "ranker"}

\* C2: whenever the refine stage has started in a cycle, the draft stage and
\* every stage of the search branch have returned in that cycle and their
\* updates have been merged.
C2_JoinBeforeRefine ==
    "refiner" \in Range(started) => BothBranches \subseteq merged

C2_Witness == "refiner" \in Range(started) /\ "refiner" \notin merged

Chain == <<"planner", "search", "filter", "crawl", "extract", "ranker", "refiner",
           "responder">>

PlannerErrorCase(r) ==
    /\ r.node = "planner"
    /\ \/ LastOf(r.input.messages).role # "human"
       \/ Strip(LastOf(r.input.messages).content) = ""
       \/ ~r.ext.json
       \/ Len(r.ext.search_queries) > PlannerMaxItems

FilterErrorCase(r) ==
    /\ r.node = "filter"
    /\ \/ ~Has(r.input, "search_docs")
       \/ Len(r.input.search_docs) = 0
       \/ ~r.ext.json
       \/ Len(r.ext.selected_urls) < FilterMinItems
       \/ Len(r.ext.selected_urls) > FilterMaxItems

DrafterErrorCase(r) ==
    /\ r.node = "drafter"
    /\ \/ Strip(r.input.messages[1].content) = ""
       \/ Strip(r.input.solution_outline) = ""

\* C6: a step that runs the plan, filter or draft stage on one of its error
\* cases ends the run with that stage's error and no result, and no step is
\* taken once a stage has raised: no stage is run again or later.
C6_StageErrorAborts ==
    [][/\ outcome # "node_error"
       /\ (PlannerErrorCase(last') \/ FilterErrorCase(last') \/ DrafterErrorCase(last')) =>
            /\ outcome' = "node_error"
            /\ failed'.node = last'.node
            /\ result' = NoResult
            /\ last' # last]_vars

C6_Witness ==
    /\ outcome = "node_error"
    /\ failed = [node |-> "filter", err |-> "ValueError"]
    /\ runs["filter"] = 1

\* _Out.validate of responder.py: the loop-decision schema
LoopDecisionValid(reply) ==
    /\ reply.json
    /\ reply.status \in {"continue", "done"}
    /\ reply.status = "continue" => reply.has_problem /\ Strip(reply.problem) # ""

\* C7 (as claimed): every follow-up reply that fails the loop-decision
\* schema makes the respond stage return run_status "done" with an error
\* message appended, and never raise.
C7_InvalidReplyDegrades ==
    (/\ last.node = "responder"
     /\ Strip(last.ext.user_input) # ""
     /\ ~LoopDecisionValid(last.ext.reply)) =>
        /\ last.ret.err = "none"
        /\ last.ret.update.status = "done"
        /\ LastOf(last.ret.update.messages) = AIMessage("responder_error")

RECURSIVE ExpectedSearch(_, _, _)
\* the hits of the queries that succeeded, from query i on, in input order
ExpectedSearch(queries, outs, i) ==
    IF i > Len(queries) THEN <<>>
    ELSE (IF outs[i] = "error" THEN <<>> ELSE SearchHits(queries[i]))
         \o ExpectedSearch(queries, outs, i + 1)

RECURSIVE ExpectedCrawl(_, _, _)
\* the pages with a body of the targets that succeeded, from target i on
ExpectedCrawl(urls, outs, i) ==
    IF i > Len(urls) THEN <<>>
    ELSE LET pages == IF outs[i] = "ok" THEN PagesOf(urls[i]) ELSE <<>>
             withBody == SelectSeq(pages, LAMBDA pg : pg.raw_content # "") IN
         [j \in 1..Len(withBody) |->
             [url |-> withBody[j].url, content |-> withBody[j].raw_content]]
         \o ExpectedCrawl(urls, outs, i + 1)

\* C8: the search stage given queries, and the crawl stage given targets,
\* return whatever items fail, and return exactly the results of the items
\* that succeeded, in input order (for crawl, the pages with a body).
C8_FanOutFailureIsLocal ==
    /\ (last.node = "search" /\ Has(last.input, "search_queries")
        /\ Len(last.input.search_queries) > 0) =>
          /\ last.ret.err = "none"
          /\ last.ret.update.search_docs =
                ExpectedSearch(last.input.search_queries, last.ext, 1)
    /\ (last.node = "crawl" /\ Has(last.input, "crawl_urls")
        /\ Len(last.input.crawl_urls) > 0) =>
          /\ last.ret.err = "none"
          /\ last.ret.update.crawl_docs =
                ExpectedCrawl(last.input.crawl_urls, last.ext, 1)

C8_Witness ==
    /\ last.node = "crawl"
    /\ Len(last.ext) = 2
    /\ last.ext[1] = "RequestException"
    /\ last.ext[2] = "ok"
    /\ Len(last.ret.update.crawl_docs) > 0

\* the URLs of the requests whose call raised, in the order sent
FailedBatchUrls(reqs, outs) ==
    Flatten([b \in 1..Len(reqs) |-> IF outs[b] = "exception" THEN reqs[b] ELSE <<>>])

Count(seq, P(_)) == Len(SelectSeq(seq, P))

\* the failure records (records with an error) among the lists of an update
ReturnedFailures(u) ==
    {<<k, i>> \in (DOMAIN u) \X (1..(MaxQueued + 1)) :
        i <= Len(u[k]) /\ "error" \in DOMAIN u[k][i]}

ExtractRanOn ==
    last.node = "extract" /\ Len(last.input.crawl_docs) > 0

C10_BatchesPartitionQueue ==
    ExtractRanOn =>
        LET todo == DedupAll(last.input.crawl_docs).todo
            reqs == last.ret.effects.requests IN
        /\ \A b \in 1..Len(reqs) : Len(reqs[b]) >= 1 /\ Len(reqs[b]) <= BATCH_SIZE
        /\ Flatten(reqs) = todo
        /\ \A i, j \in 1..Len(todo) : todo[i] = todo[j] => i = j

C10_Witness ==
    /\ ExtractRanOn
    /\ Len(last.ret.effects.requests) = 3
    /\ Len(last.ret.effects.requests[3]) = 1

\* the stage has returned reference documents
ExtractReturned ==
    /\ last # NoRun
    /\ last.node = "extract"
    /\ last.ret.err = "none"
    /\ Has(last.ret.update, "raw_docs")

FirstOfName(docs) ==
    {i \in 1..Len(docs) :
        /\ filename(docs[i].url) # NoName
        /\ \A j \in 1..(i - 1) : filename(docs[j].url) # filename(docs[i].url)}

\* where document d was stored directly, and where it was queued (0: nowhere)
StoredAt(direct, d) ==
    LET at == {p \in 1..Len(direct) :
                  direct[p] = [url |-> raw_to_blob(d.url), content |-> d.content]} IN
    IF at = {} THEN 0 ELSE CHOOSE p \in at : TRUE

QueuedAt(todo, d) ==
    LET at == {p \in 1..Len(todo) : todo[p] = blob_to_raw(d.url)} IN
    IF at = {} THEN 0 ELSE CHOOSE p \in at : TRUE

\* C12 (as claimed): of the crawled pages, the extract stage keeps exactly
\* the first of every file name, each either stored directly or queued for
\* extraction and never both, in arrival order, and nothing else.
C12_FirstPerFilenameKept ==
    (last # NoRun /\ ExtractRanOn) =>
        LET docs == last.input.crawl_docs
            direct == DedupAll(docs).raw_docs
            todo == Flatten(last.ret.effects.requests)
            first == FirstOfName(docs) IN
        /\ Len(direct) + Len(todo) = Cardinality(first)
        /\ \A i \in first :
              (StoredAt(direct, docs[i]) # 0) # (QueuedAt(todo, docs[i]) # 0)
        /\ \A i, j \in first :
              i < j =>
                /\ StoredAt(direct, docs[j]) # 0 =>
                       StoredAt(direct, docs[i]) < StoredAt(direct, docs[j])
                /\ QueuedAt(todo, docs[j]) # 0 =>
                       QueuedAt(todo, docs[i]) < QueuedAt(todo, docs[j])

\* how many times "/tok/" is in the URL
Occurrences(url, tok) == Cardinality({i \in 1..(Len(url) - 1) : url[i] = tok})

\* C13 (as claimed): the raw-to-viewable conversion changes the URL of no
\* reference document the extract stage returns.
C13_UrlsAreViewable ==
    ExtractReturned =>
        \A p \in 1..Len(last.ret.update.raw_docs) :
            raw_to_blob(last.ret.update.raw_docs[p].url) = last.ret.update.raw_docs[p].url

\* C13 (amended): the URL of every reference document the extract stage
\* returns is the raw-to-viewable conversion, which replaces the first raw
\* token only, of the URL the page was crawled at or the provider returned;
\* converting it again changes nothing unless the page was crawled at a URL
\* that holds the raw token more than once.
C13_UrlsConvertedOnce ==
    ExtractReturned =>
        LET docs == last.ret.update.raw_docs
            crawled == last.input.crawl_docs
            asked == Flatten(last.ret.effects.requests) IN
        \A p \in 1..Len(docs) :
            /\ \/ \E i \in 1..Len(crawled) :
                     Contains(crawled[i].url, RawSeg)
                     /\ docs[p].url = raw_to_blob(crawled[i].url)
               \/ \E q \in 1..Len(asked) : docs[p].url = raw_to_blob(asked[q])
            /\ \/ raw_to_blob(docs[p].url) = docs[p].url
               \/ \E i \in 1..Len(crawled) :
                     /\ Occurrences(crawled[i].url, RawSeg) > 1
                     /\ docs[p].url = raw_to_blob(crawled[i].url)

\* a page crawled in raw form and a page crawled in viewable form and
\* extracted: two reference documents, both in viewable form
C13_Witness ==
    /\ ExtractReturned
    /\ Len(last.input.crawl_docs) = 2
    /\ last.input.crawl_docs[1].url = <<Dir(1), RawSeg, File(1)>>
    /\ last.input.crawl_docs[2].url = <<Dir(1), BlobSeg, File(2)>>
    /\ last.ext = <<"ok">>
    /\ last.ret.update.raw_docs[1].url = <<Dir(1), BlobSeg, File(1)>>
    /\ last.ret.update.raw_docs[2].url = <<Dir(1), BlobSeg, File(2)>>

\* C14: for a URL that holds the viewable token exactly once, converting to
\* raw, back to viewable and to raw again gives what converting to raw
\* once gives.
C14_UrlRoundTrip ==
    (last # NoRun /\ last.node = "url" /\ Occurrences(last.input, BlobSeg) = 1) =>
        last.ret.round = last.ret.raw

\* a URL with the viewable token once, behind a raw token: the conversion
\* changed it and the round trip came back
C14_Witness ==
    /\ last # NoRun
    /\ last.node = "url"
    /\ last.input = <<RawSeg, Dir(1), BlobSeg, File(1)>>
    /\ last.ret.raw = <<RawSeg, Dir(1), RawSeg, File(1)>>
    /\ last.ret.round = last.ret.raw

\* the URLs of a list of documents
UrlsOf(docs) == {docs[i].url : i \in 1..Len(docs)}

\* the stage has run on the documents its first run returned
ExtractedTwice == last # NoRun /\ last.node = "extract_again"

\* C15 (as claimed): the extract stage run on the documents it returned,
\* every URL coming back with its text, returns the same set of documents:
\* the same URLs.
C15_DedupIdempotent ==
    ExtractedTwice =>
        UrlsOf(RawDocsOf(last.ret.update)) = UrlsOf(last.input.crawl_docs)

\* the rank stage has run and returned
RankReturned == last # NoRun /\ last.node = "ranker" /\ last.ret.err = "none"

RankRan == last # NoRun /\ last.node = "ranker" /\ last.ext # "error"

\* C17 (as claimed): run on one or more reference documents and no draft,
\* the rank stage returns without an error and every document's similarity
\* score is None.
C17_NoDraftNoScore ==
    (RankRan /\ ~Has(last.input, "initial_content") /\ Len(RawDocsOf(last.input)) > 0) =>
        /\ last.ret.err = "none"
        /\ \A i \in 1..Len(last.ret.update.raw_docs) :
              last.ret.update.raw_docs[i].similarity_score = NoScore

\* the squared norm of a vector
Norm2(v) == Dot(v, v)

\* C18 (as claimed): run on a draft and reference documents, the rank stage
\* raises nothing; a document whose vector, or the draft's, has norm zero
\* keeps the score None, never NaN; and every other score is in [-1, 1].
C18_ZeroNormUnscored ==
    (RankRan /\ Has(last.input, "initial_content") /\ Len(RawDocsOf(last.input)) > 0) =>
        LET n == Len(RawDocsOf(last.input)) + 1
            vectors == Embeddings(n, last.ext) IN
        /\ last.ret.err = "none"
        /\ \A i \in 1..(n - 1) :
              LET score == last.ret.update.raw_docs[i].similarity_score IN
              IF Norm2(vectors[i]) = 0 \/ Norm2(vectors[n]) = 0
              THEN score = NoScore
              ELSE score.kind = "value" /\ score.dot * score.dot <= score.na * score.nb

\* C19 (as claimed): no request the rank stage sends to the embedding
\* provider holds more than 96 signatures, and the requests, one after the
\* other, are the signatures of the documents and then the draft's.
C19_EmbedBatchCeiling ==
    (last # NoRun /\ last.node = "ranker") =>
        /\ \A r \in 1..Len(last.requests) : Len(last.requests[r]) <= 96
        /\ Len(Flatten(last.requests)) =
              Len(RawDocsOf(last.input)) + (IF Has(last.input, "initial_content") THEN 1 ELSE 0)

\* the place of a document of ScoredLists in its list
PlaceOf(d) == d.url[3].idx

\* document d goes before document e in the stable descending order
Before(d, e) ==
    \/ ScoreLess(e.similarity_score, d.similarity_score)
    \/ /\ ~ScoreLess(d.similarity_score, e.similarity_score)
       /\ PlaceOf(d) < PlaceOf(e)

\* C20: top_k_best returns, when some document has a score, the first k of
\* the scored documents in descending order of score, equal scores in the
\* order they came in, and no document without a score; and when no
\* document has a score, the first k documents as they came in.
C20_TopKBest ==
    (last # NoRun /\ last.node = "top_k_best") =>
        LET docs == last.input.docs
            k == last.input.k
            res == last.ret
            scored == {i \in 1..Len(docs) : docs[i].similarity_score # NoScore}
            chosen == {PlaceOf(res[p]) : p \in 1..Len(res)} IN
        IF scored = {}
        THEN res = SubSeq(docs, 1, IF k < Len(docs) THEN k ELSE Len(docs))
        ELSE /\ Len(res) = (IF k < Cardinality(scored) THEN k ELSE Cardinality(scored))
             /\ \A p \in 1..Len(res) : res[p] = docs[PlaceOf(res[p])]
             /\ chosen \subseteq scored
             /\ \A p, q \in 1..Len(res) : p < q => Before(res[p], res[q])
             /\ \A p \in 1..Len(res) : \A i \in scored \ chosen : Before(res[p], docs[i])

\* scores 0.9, None, 0.5, 0.9 and k = 2: the first and the fourth document
C20_Witness ==
    /\ last # NoRun
    /\ last.node = "top_k_best"
    /\ last.input.k = 2
    /\ [i \in 1..Len(last.input.docs) |-> last.input.docs[i].similarity_score] =
          <<Score(9, 10, 10), NoScore, Score(5, 10, 10), Score(9, 10, 10)>>
    /\ [p \in 1..Len(last.ret) |-> PlaceOf(last.ret[p])] = <<1, 4>>

RefineReturned == last # NoRun /\ last.node = "refiner" /\ last.ret.err = "none"

\* C21: whenever the refine stage returns a final result, its sources are
\* at most TOP_K_example URLs, each the URL of a reference document that
\* was in the state the stage was handed, and no URL is cited more often
\* than documents carry it; with no reference documents the sources are
\* empty.
C21_SourcesFromReferences ==
    RefineReturned =>
        LET docs == RawDocsOf(last.input)
            sources == last.ret.update.final_content.sources IN
        /\ Len(sources) <= TOP_K_example
        /\ Range(sources) \subseteq {docs[i].url : i \in 1..Len(docs)}
        /\ \A u \in Range(sources) :
              Cardinality({p \in 1..Len(sources) : sources[p] = u})
                 <= Cardinality({i \in 1..Len(docs) : docs[i].url = u})
        /\ Len(docs) = 0 => sources = <<>>

\* more reference documents than TOP_K_example reach the refine stage and
\* three of them are cited
C21_Witness ==
    /\ RefineReturned
    /\ Len(RawDocsOf(last.input)) > TOP_K_example
    /\ Len(last.ret.update.final_content.sources) = TOP_K_example

\* C22: the shared state changes only in the step that merges the returned
\* updates of a superstep, and a stage's run leaves the state it was handed,
\* keys and documents, as it received it.
C22_OnlyMergeChangesState ==
    [][/\ state' # state =>
             /\ DOMAIN updates = active
             /\ state' = MergeAll(state, updates)
       /\ \A n \in Nodes :
             runs'[n] # runs[n] =>
                 /\ state' = state
                 /\ taskInput'[n] = taskInput[n]]_vars

RECURSIVE LatestHuman(_)
\* the most recent human message of a conversation
LatestHuman(msgs) ==
    IF msgs[Len(msgs)].role = "human" THEN msgs[Len(msgs)]
    ELSE LatestHuman(SubSeq(msgs, 1, Len(msgs) - 1))

PromptedStage(n) == last # NoRun /\ last.node = n /\ last.ret.err = "none"

\* C23: in every cycle the problem statement that the draft, filter and
\* refine stages put in their prompt is the most recent human message of
\* the conversation they are handed, the one the plan stage of the cycle
\* planned from.
C23_ProblemOfTheCycle ==
    \A n \in {"planner", "drafter", "filter", "refiner"} :
        PromptedStage(n) =>
            Strip(last.ret.effects.problem) =
                Strip(LatestHuman(last.input.messages).content)

\* document d of the crawled pages was stored directly or queued
KeptBy(acc, d) == StoredAt(acc.raw_docs, d) # 0 \/ QueuedAt(acc.todo, d) # 0

\* C24: in the dedup loop of the extract stage every file name recorded as
\* seen is the file name of a crawled page that was stored directly or
\* queued for extraction, and a page whose URL holds one of the two tokens
\* is kept unless an earlier page of its file name was kept.
C24_SeenOnlyWhenKept ==
    (last # NoRun /\ ExtractRanOn) =>
        LET docs == last.input.crawl_docs
            acc == DedupAll(docs) IN
        /\ \A f \in acc.seen :
              \E i \in 1..Len(docs) :
                  filename(docs[i].url) = f /\ KeptBy(acc, docs[i])
        /\ \A j \in 1..Len(docs) :
              (/\ filename(docs[j].url) # NoName
               /\ Contains(docs[j].url, RawSeg) \/ Contains(docs[j].url, BlobSeg)
               /\ \A i \in 1..(j - 1) :
                     filename(docs[i].url) = filename(docs[j].url)
                        => ~KeptBy(acc, docs[i]))
                 => KeptBy(acc, docs[j])

\* C25: a run whose first follow-up decision is "continue" and whose second
\* is "done" does not reach the recursion limit: no run ends with the
\* recursion error in its first or second cycle.
C25_TwoCyclesWithinCeiling ==
    cycle <= 2 => outcome # "recursion_error"

====
